---- MODULE Spec2Model ----
(***************************************************************************)
(* A model of the private package-index server: the in-memory package      *)
(* index (PkgRepoIndex), its persistence, the file-system backend          *)
(* (FileSystemPkgRepo) and the authentication workflow.                    *)
(*                                                                         *)
(* Python strings that the code inspects character by character            *)
(* (distribution names, file names, messages) are tuples of one-character  *)
(* strings; opaque strings (package identifiers, secrets) are TLA+         *)
(* strings.  A Python dict is a tuple of <<key, value>> pairs in insertion *)
(* order.                                                                  *)
(***************************************************************************)
EXTENDS Integers, Sequences, FiniteSets, TLC

VARIABLES
    distrib_to_pkg_refs,  \* PkgRepoIndex._distrib_to_pkg_refs
    package_to_pkg_ref,   \* PkgRepoIndex._package_to_pkg_ref
    index_file,           \* the index file on disk, as written by the last dump
    dumped_index,         \* the distribution map of the index that dump wrote
    index_op,             \* the last index operation, its argument and its outcome
    looked_up,            \* the last lookup in the index and what it returned
    storage,              \* the files under <cache>/storage/<distrib>/
    lock,                 \* who holds the FileLock of each lock path
    up,                   \* each upload_package call: its context and its position
    listing,              \* what the last collect_all_published_packages returned
    private_fields,       \* FileSystemPkgRepo._private_fields: ready, err_msg
    errors,               \* the messages of the record_error calls, in order
    cache_found,          \* isdir(local_paths.cache) as __init__ found it
    config,               \* FileSystemPkgRepo.config: read_secret, write_secret
    secret,               \* FileSystemPkgRepo.secret: the raw secret presented
    auth,                 \* what auth_read() and auth_write() returned
    auth_cache,           \* per mode and secret hash: the decision and its time
    ttl,                  \* auth_read_expires, auth_write_expires
    now,                  \* the clock of the workflow, in seconds
    last_auth,            \* the last authentication request and its outcome
    held_index,           \* the workflow's in-memory index of the instance
    sync,                 \* the synchronization cycle: its position and its work
    last_read,            \* the index the last reader got
    modules,              \* the registrations of the modules under private_pypi.backends
    manager,              \* BackendInstanceManager: _type_to_registration
    created,              \* the last create_* call and its outcome
    huey_storage,         \* DynamicHuey._huey_storage
    func_to_task_args,    \* DynamicHuey._func_to_task_args
    func_to_task,         \* DynamicHuey._func_to_task
    last_assignment,      \* the latest huey_storage assignment and what was filed then
    last_call,            \* the last call of a wrapper and its outcome
    pkg_repo_configs,     \* the collection of configs that is dumped
    config_file,          \* the config file, as dump_pkg_repo_configs wrote it
    secret_file,          \* the secret file of the same instances
    loaded_configs,       \* what the last load_pkg_repo_configs returned
    loaded_secrets        \* what the last load_pkg_repo_secrets returned

indexVars ==
    <<distrib_to_pkg_refs, package_to_pkg_ref, index_file, dumped_index, index_op,
      looked_up>>

readyVars == <<private_fields, errors, cache_found>>

fsVars == <<storage, lock, up, listing, readyVars>>

authVars == <<config, secret, auth>>

cacheVars == <<auth_cache, ttl, now, last_auth>>

syncVars == <<held_index, sync, last_read>>

registryVars == <<modules, manager, created>>

hueyVars ==
    <<huey_storage, func_to_task_args, func_to_task, last_assignment, last_call>>

configsVars ==
    <<pkg_repo_configs, config_file, secret_file, loaded_configs, loaded_secrets>>

vars ==
    <<indexVars, fsVars, authVars, cacheVars, syncVars, registryVars, hueyVars,
      configsVars>>

\* What the operations of one component leave alone.
notIndexVars == <<fsVars, authVars, cacheVars, syncVars, registryVars,
      hueyVars, configsVars>>

notFsVars == <<indexVars, authVars, cacheVars, syncVars, registryVars,
      hueyVars, configsVars>>

notAuthVars == <<indexVars, fsVars, cacheVars, syncVars, registryVars,
      hueyVars, configsVars>>

\* The cache reads the configuration and never writes it.
notCacheVars == <<indexVars, fsVars, authVars, syncVars, registryVars,
      hueyVars, configsVars>>

notSyncVars == <<indexVars, fsVars, authVars, cacheVars, registryVars,
      hueyVars, configsVars>>

notRegistryVars == <<indexVars, fsVars, authVars, cacheVars, syncVars, hueyVars,
      configsVars>>

notHueyVars == <<indexVars, fsVars, authVars, cacheVars, syncVars, registryVars,
      configsVars>>

\* The loads read the registry and never write it.
notConfigsVars ==
    <<indexVars, fsVars, authVars, cacheVars, syncVars, registryVars, hueyVars>>

(***************************************************************************)
(* Python dicts                                                            *)
(***************************************************************************)
EmptyDict == <<>>

DictKeys(d) == {d[i][1] : i \in DOMAIN d}

DictHas(d, k) == \E i \in DOMAIN d : d[i][1] = k

DictGet(d, k) == d[CHOOSE i \in DOMAIN d : d[i][1] = k][2]

DictSet(d, k, v) ==
    IF DictHas(d, k)
    THEN [d EXCEPT ![CHOOSE i \in DOMAIN d : d[i][1] = k] = <<k, v>>]
    ELSE Append(d, <<k, v>>)

\* dict.__eq__: the same keys with the same values, whatever the insertion order.
DictEq(d, e) ==
    /\ DictKeys(d) = DictKeys(e)
    /\ \A k \in DictKeys(d) : DictGet(d, k) = DictGet(e, k)

(***************************************************************************)
(* Strings as tuples of characters                                         *)
(***************************************************************************)
UpperChars == <<"A", "B", "C", "D", "E", "F", "G", "H", "I", "J", "K", "L", "M",
                "N", "O", "P", "Q", "R", "S", "T", "U", "V", "W", "X", "Y", "Z">>

LowerChars == <<"a", "b", "c", "d", "e", "f", "g", "h", "i", "j", "k", "l", "m",
                "n", "o", "p", "q", "r", "s", "t", "u", "v", "w", "x", "y", "z">>

\* str.lower() on one character.
ToLower(c) ==
    IF \E i \in DOMAIN UpperChars : UpperChars[i] = c
    THEN LowerChars[CHOOSE i \in DOMAIN UpperChars : UpperChars[i] = c]
    ELSE c

SeparatorChars == {"-", "_", "."}

\* `needle in haystack` on strings.
Contains(haystack, needle) ==
    \E i \in 1..(Len(haystack) - Len(needle) + 1) :
        SubSeq(haystack, i, i + Len(needle) - 1) = needle

\* private_pypi.utils.normalize_distribution_name: every run of "-", "_", "."
\* becomes one "-", and the result is lowercased ("Foo_Bar" -> "foo-bar").
RECURSIVE FoldFrom(_, _)
FoldFrom(s, i) ==
    IF i > Len(s) THEN <<>>
    ELSE IF s[i] \in SeparatorChars
         THEN IF i > 1 /\ s[i - 1] \in SeparatorChars
              THEN FoldFrom(s, i + 1)
              ELSE <<"-">> \o FoldFrom(s, i + 1)
         ELSE <<ToLower(s[i])>> \o FoldFrom(s, i + 1)

normalize_distribution_name(name) == FoldFrom(name, 1)

(***************************************************************************)
(* Inputs of the index operations                                          *)
(***************************************************************************)
\* Distribution names a PkgRef may carry: "foo-bar", "Foo_Bar", "pkg".
DistribNames ==
    { <<"f", "o", "o", "-", "b", "a", "r">>,
      <<"F", "o", "o", "_", "B", "a", "r">>,
      <<"p", "k", "g">> }

\* The number of distinct package identifiers.
NumPackages == 2

Packages == 1..NumPackages

\* A PkgRef: the fields the index reads (distrib, package); type, ext, sha256
\* and meta are carried along unread and are left out.
PkgRefs == [distrib : DistribNames, package : Packages]

(***************************************************************************)
(* PkgRepoIndex                                                            *)
(***************************************************************************)
\* PkgRepoIndex.add_pkg_ref with the duplicate check left out: the second ref
\* of a package identifier is appended and overwrites the first in the map.
add_pkg_ref_unchecked(d2r, p2r, pkg_ref) ==
    LET bucket == IF DictHas(d2r, pkg_ref.distrib)
                  THEN DictGet(d2r, pkg_ref.distrib) ELSE <<>>
    IN  [raised |-> FALSE,
         d2r |-> DictSet(d2r, pkg_ref.distrib, Append(bucket, pkg_ref)),
         p2r |-> DictSet(p2r, pkg_ref.package, pkg_ref)]

\* PkgRepoIndex.add_pkg_ref with the last statement left out: the ref reaches
\* its bucket and never the package map.
add_pkg_ref_unmapped(d2r, p2r, pkg_ref) ==
    LET r == add_pkg_ref_unchecked(d2r, p2r, pkg_ref)
    IN  IF DictHas(p2r, pkg_ref.package)
        THEN [raised |-> TRUE, d2r |-> d2r, p2r |-> p2r]
        ELSE [raised |-> FALSE, d2r |-> r.d2r, p2r |-> p2r]

\* PkgRepoIndex.add_pkg_ref on the maps (d2r, p2r): whether it raised KeyError,
\* and the maps after the call.
add_pkg_ref(d2r, p2r, pkg_ref) ==
    IF DictHas(p2r, pkg_ref.package)
    THEN [raised |-> TRUE, d2r |-> d2r, p2r |-> p2r]
    ELSE LET withBucket == IF DictHas(d2r, pkg_ref.distrib)
                           THEN d2r
                           ELSE DictSet(d2r, pkg_ref.distrib, <<>>)
             bucket == DictGet(withBucket, pkg_ref.distrib)
         IN  [raised |-> FALSE,
              d2r |-> DictSet(withBucket, pkg_ref.distrib, Append(bucket, pkg_ref)),
              p2r |-> DictSet(p2r, pkg_ref.package, pkg_ref)]

\* PkgRepoIndex.__init__: the refs are added in order; the constructor raises
\* when one of the insertions does.
RECURSIVE PkgRepoIndexFrom(_, _, _, _)
PkgRepoIndexFrom(d2r, p2r, pkg_refs, i) ==
    IF i > Len(pkg_refs)
    THEN [raised |-> FALSE, d2r |-> d2r, p2r |-> p2r]
    ELSE LET r == add_pkg_ref(d2r, p2r, pkg_refs[i])
         IN  IF r.raised
             THEN [raised |-> TRUE, d2r |-> EmptyDict, p2r |-> EmptyDict]
             ELSE PkgRepoIndexFrom(r.d2r, r.p2r, pkg_refs, i + 1)

PkgRepoIndex(pkg_refs) == PkgRepoIndexFrom(EmptyDict, EmptyDict, pkg_refs, 1)

\* PkgRepoIndex.all_distributions: the keys, in insertion order.
all_distributions(d2r) == [i \in DOMAIN d2r |-> d2r[i][1]]

\* PkgRepoIndex.get_pkg_refs: dict.get's None is [found |-> FALSE].
get_pkg_refs(d2r, query_distrib) ==
    LET distrib == normalize_distribution_name(query_distrib)
    IN  IF DictHas(d2r, distrib)
        THEN [found |-> TRUE, refs |-> DictGet(d2r, distrib)]
        ELSE [found |-> FALSE, refs |-> <<>>]

(***************************************************************************)
(* Persistence of the index                                                *)
(***************************************************************************)
\* dump_pkg_repo_index: the struct handed to write_toml, one key per
\* distribution of the index.  Iterating the None that get_pkg_refs returns
\* raises TypeError before anything is written.
RECURSIVE DumpStructFrom(_, _, _)
DumpStructFrom(d2r, struct, i) ==
    IF i > Len(d2r)
    THEN [raised |-> FALSE, struct |-> struct]
    ELSE LET distrib == all_distributions(d2r)[i]
             got == get_pkg_refs(d2r, distrib)
         IN  IF ~got.found
             THEN [raised |-> TRUE, struct |-> EmptyDict]
             ELSE DumpStructFrom(d2r, DictSet(struct, distrib, got.refs), i + 1)

dump_pkg_repo_index(d2r) == DumpStructFrom(d2r, EmptyDict, 1)

\* itertools.chain.from_iterable(struct.values())
RECURSIVE ChainFrom(_, _)
ChainFrom(struct, i) ==
    IF i > Len(struct) THEN <<>> ELSE struct[i][2] \o ChainFrom(struct, i + 1)

\* build_pkg_repo_index_from_pkg_refs: the bulk constructor of the index.
build_pkg_repo_index_from_pkg_refs(pkg_refs) == PkgRepoIndex(pkg_refs)

\* load_pkg_repo_index: every ref of the file, in the file's order, into a
\* new index.
load_pkg_repo_index(struct) ==
    build_pkg_repo_index_from_pkg_refs(ChainFrom(struct, 1))

NoRef == [distrib |-> <<>>, package |-> 0]

NoFile == [exists |-> FALSE, struct |-> EmptyDict]

NoOp == [op |-> "none", pkg_ref |-> NoRef, raised |-> FALSE,
         d2r |-> EmptyDict, p2r |-> EmptyDict]

\* PkgRepoIndex.get_single_pkg_ref: dict.get's and the method's None is
\* [found |-> FALSE].
get_single_pkg_ref(p2r, query_distrib, query_package) ==
    IF ~DictHas(p2r, query_package)
    THEN [found |-> FALSE, ref |-> NoRef]
    ELSE LET pkg_ref == DictGet(p2r, query_package)
         IN  IF normalize_distribution_name(query_distrib) # pkg_ref.distrib
             THEN [found |-> FALSE, ref |-> NoRef]
             ELSE [found |-> TRUE, ref |-> pkg_ref]

NoLookup ==
    [called |-> FALSE, query_distrib |-> <<>>, query_package |-> 0,
     refs |-> [found |-> FALSE, refs |-> <<>>],
     single |-> [found |-> FALSE, ref |-> NoRef]]

IndexInit ==
    /\ distrib_to_pkg_refs = EmptyDict
    /\ package_to_pkg_ref = EmptyDict
    /\ index_file = NoFile
    /\ dumped_index = EmptyDict
    /\ index_op = NoOp
    /\ looked_up = NoLookup

\* index.add_pkg_ref(pkg_ref); index_op keeps the maps as they were before.
AddPkgRef(pkg_ref) ==
    LET r == add_pkg_ref(distrib_to_pkg_refs, package_to_pkg_ref, pkg_ref)
    IN  /\ distrib_to_pkg_refs' = r.d2r
        /\ package_to_pkg_ref' = r.p2r
        /\ index_op' = [op |-> "add", pkg_ref |-> pkg_ref, raised |-> r.raised,
                        d2r |-> distrib_to_pkg_refs, p2r |-> package_to_pkg_ref]
        /\ UNCHANGED <<index_file, dumped_index, looked_up>>
        /\ UNCHANGED notIndexVars

\* dump_pkg_repo_index(path, index): the file is replaced unless the dump raised.
DumpPkgRepoIndex ==
    LET r == dump_pkg_repo_index(distrib_to_pkg_refs)
    IN  /\ index_file' = IF r.raised THEN index_file
                         ELSE [exists |-> TRUE, struct |-> r.struct]
        /\ dumped_index' = IF r.raised THEN dumped_index ELSE distrib_to_pkg_refs
        /\ index_op' = [op |-> "dump", pkg_ref |-> NoRef, raised |-> r.raised,
                        d2r |-> distrib_to_pkg_refs, p2r |-> package_to_pkg_ref]
        /\ UNCHANGED <<distrib_to_pkg_refs, package_to_pkg_ref, looked_up>>
        /\ UNCHANGED notIndexVars

\* load_pkg_repo_index(path, type_) of a file a dump has written; index_op
\* keeps the index it returned.
LoadPkgRepoIndex ==
    /\ index_file.exists
    /\ LET r == load_pkg_repo_index(index_file.struct)
       IN  index_op' = [op |-> "load", pkg_ref |-> NoRef, raised |-> r.raised,
                        d2r |-> r.d2r, p2r |-> r.p2r]
    /\ UNCHANGED <<distrib_to_pkg_refs, package_to_pkg_ref, index_file, dumped_index,
                   looked_up>>
    /\ UNCHANGED notIndexVars

\* index.get_pkg_refs(query_distrib) and
\* index.get_single_pkg_ref(query_distrib, query_package).
Lookup(query_distrib, query_package) ==
    /\ looked_up' =
          [called |-> TRUE, query_distrib |-> query_distrib,
           query_package |-> query_package,
           refs |-> get_pkg_refs(distrib_to_pkg_refs, query_distrib),
           single |-> get_single_pkg_ref(package_to_pkg_ref, query_distrib,
                                         query_package)]
    /\ UNCHANGED <<distrib_to_pkg_refs, package_to_pkg_ref, index_file, dumped_index,
                   index_op>>
    /\ UNCHANGED notIndexVars

(***************************************************************************)
(* The index: claims                                                       *)
(***************************************************************************)
\* Every <<bucket, position>> of the distribution map where ref is held.
BucketPlaces(d2r, ref) ==
    {pl \in UNION {{<<i, j>> : j \in DOMAIN d2r[i][2]} : i \in DOMAIN d2r} :
        d2r[pl[1]][2][pl[2]] = ref}

\* Every position of the package map where ref is held.
MapPlaces(p2r, ref) == {i \in DOMAIN p2r : p2r[i][2] = ref}

BucketRefs(d2r) == UNION {{d2r[i][2][j] : j \in DOMAIN d2r[i][2]} : i \in DOMAIN d2r}

MapRefs(p2r) == {p2r[i][2] : i \in DOMAIN p2r}

\* C1: an add_pkg_ref call whose ref carries a package identifier that the
\* index already holds raises, and leaves the distribution map and the
\* package map exactly as they were before the call.
C1_DuplicateRejected ==
    (index_op.op = "add" /\ DictHas(index_op.p2r, index_op.pkg_ref.package)) =>
        /\ index_op.raised
        /\ distrib_to_pkg_refs = index_op.d2r
        /\ package_to_pkg_ref = index_op.p2r

\* C1's case: a second ref of a held package identifier, under another
\* distribution name than the held one, was just refused.
C1_Witness ==
    /\ index_op.op = "add"
    /\ index_op.raised
    /\ DictHas(index_op.p2r, index_op.pkg_ref.package)
    /\ DictGet(index_op.p2r, index_op.pkg_ref.package).distrib
           # index_op.pkg_ref.distrib
    /\ Len(package_to_pkg_ref) = NumPackages

\* C2: after any sequence of add_pkg_ref calls, successful or failing, every
\* held ref is in exactly one bucket (the one of its distribution name),
\* exactly once there, and exactly once in the package map (under its package
\* identifier); the buckets and the package map hold the same set of refs.
C2_IndexConsistent ==
    /\ BucketRefs(distrib_to_pkg_refs) = MapRefs(package_to_pkg_ref)
    /\ \A ref \in BucketRefs(distrib_to_pkg_refs) :
        /\ Cardinality(BucketPlaces(distrib_to_pkg_refs, ref)) = 1
        /\ \A pl \in BucketPlaces(distrib_to_pkg_refs, ref) :
               distrib_to_pkg_refs[pl[1]][1] = ref.distrib
    /\ \A ref \in MapRefs(package_to_pkg_ref) :
        /\ Cardinality(MapPlaces(package_to_pkg_ref, ref)) = 1
        /\ \A i \in MapPlaces(package_to_pkg_ref, ref) :
               package_to_pkg_ref[i][1] = ref.package
    /\ Cardinality(DictKeys(distrib_to_pkg_refs)) = Len(distrib_to_pkg_refs)
    /\ Cardinality(DictKeys(package_to_pkg_ref)) = Len(package_to_pkg_ref)

\* C2's case: a bucket of two refs beside the package map of two, after an
\* insertion failed.
C2_Witness ==
    /\ index_op.op = "add"
    /\ index_op.raised
    /\ \E i \in DOMAIN distrib_to_pkg_refs : Len(distrib_to_pkg_refs[i][2]) = 2
    /\ Len(package_to_pkg_ref) = 2

\* C3: dumping an index built by insertions succeeds, and loading the dump
\* returns an index with the same distributions and, in each, the same refs
\* in the same order.
C3_RoundTrip ==
    /\ index_op.op = "dump" => ~index_op.raised
    /\ index_op.op = "load" =>
        /\ ~index_op.raised
        /\ DictEq(index_op.d2r, dumped_index)

\* C16: a lookup by the distribution name and the package identifier of a
\* held ref finds the ref: get_pkg_refs returns a sequence that contains it
\* and get_single_pkg_ref returns it; get_single_pkg_ref returns nothing for
\* an unknown package identifier and for one whose ref has a distribution
\* name other than the normalized query.
C16_Lookups ==
    [][looked_up' # looked_up =>
        LET held == {ref \in MapRefs(package_to_pkg_ref) :
                        ref.package = looked_up'.query_package}
        IN  /\ \A ref \in held :
                  ref.distrib = looked_up'.query_distrib =>
                      /\ looked_up'.refs.found
                      /\ \E i \in DOMAIN looked_up'.refs.refs :
                            looked_up'.refs.refs[i] = ref
                      /\ looked_up'.single = [found |-> TRUE, ref |-> ref]
            /\ held = {} => ~looked_up'.single.found
            /\ \A ref \in held :
                  ref.distrib # normalize_distribution_name(looked_up'.query_distrib)
                      => ~looked_up'.single.found]_vars

(***************************************************************************)
(* The file-system backend: FileSystemPkgRepo                              *)
(***************************************************************************)
META_SUFFIX == <<".", "m", "e", "t", "a">>

LOCK_SUFFIX == <<".", "l", "o", "c", "k">>

\* LOCK_TIMEOUT = 0.5 (seconds): the clock of the model ticks in half seconds.
LOCK_TIMEOUT == 1

MSG_NO_DISTRIB ==
    <<"C", "a", "n", "n", "o", "t", " ", "g", "e", "n", "e", "r", "a", "t",
      "e", " ", "t", "h", "e", " ", "d", "i", "s", "t", "r", "i", "b", "u",
      "t", "i", "o", "n", " ", "n", "a", "m", "e", ".">>

MSG_EXISTS ==
    <<"P", "a", "c", "k", "a", "g", "e", " ", "e", "x", "i", "s", "t", "s",
      ".">>

MSG_TIMEOUT ==
    <<"_", "u", "p", "l", "o", "a", "d", "_", "p", "a", "c", "k", "a", "g",
      "e", ":", " ", "L", "o", "c", "k", " ", "a", "c", "q", "u", "i", "r",
      "e", " ", "t", "i", "m", "e", "o", "u", "t", ".">>

\* '_upload_package:\n' + traceback.format_exc(): the traceback is one token.
MSG_EXCEPTION ==
    <<"_", "u", "p", "l", "o", "a", "d", "_", "p", "a", "c", "k", "a", "g",
      "e", ":", "\n", "Traceback (most recent call last): ...">>

\* str.endswith
EndsWith(s, suffix) ==
    /\ Len(s) >= Len(suffix)
    /\ SubSeq(s, Len(s) - Len(suffix) + 1, Len(s)) = suffix

\* The number of upload_package calls, each in a thread of its own.
NumUploaders == 2

Uploaders == 1..NumUploaders

\* File names a client may upload: "a" and "a.meta".
FileNames == { <<"a">>, <<"a", ".", "m", "e", "t", "a">> }

\* The source file a client uploads from.
SourcePaths == {"/tmp/one"}

ReadFile(path) == <<"bytes of", path>>

\* hashlib.sha256().hexdigest() of a file's bytes: one digest per content.
Sha256Hex(bytes) == <<"sha256 of", bytes[2]>>

\* The metadata a client may send: {}, {name: "Pkg"}, {distrib: "Foo_Bar"}.
MetaEmpty == EmptyDict

MetaName == << <<"name", <<"P", "k", "g">> >> >>

MetaDistrib == << <<"distrib", <<"F", "o", "o", "_", "B", "a", "r">> >> >>

Metas == {MetaEmpty, MetaName, MetaDistrib}

\* A Python value's truth under a key: present and not the empty string.
Truthy(meta, key) == DictHas(meta, key) /\ DictGet(meta, key) # <<>>

\* UploadPackageContext.__post_init__: the exception it raises ("" for none),
\* and the context's meta, failed and message after it.
UploadPackageContext(meta, path) ==
    LET noDistrib == ~Truthy(meta, "distrib")
        hasName == Truthy(meta, "name")
        meta1 == IF noDistrib /\ hasName
                 THEN DictSet(meta, "distrib",
                              normalize_distribution_name(DictGet(meta, "name")))
                 ELSE meta
        failed == noDistrib /\ ~hasName
        message == IF failed THEN MSG_NO_DISTRIB ELSE <<>>
        \* assert self.meta_distrib
        raised == IF ~DictHas(meta1, "distrib") THEN "KeyError"
                  ELSE IF DictGet(meta1, "distrib") = <<>> THEN "AssertionError"
                  ELSE ""
        meta2 == IF ~Truthy(meta1, "sha256")
                 THEN DictSet(meta1, "sha256", Sha256Hex(ReadFile(path)))
                 ELSE meta1
    IN  IF raised # ""
        THEN [raised |-> raised, meta |-> meta1, failed |-> failed, message |-> message]
        ELSE [raised |-> "", meta |-> meta2, failed |-> failed, message |-> message]

\* The distribution directories and the file names the uploads can create.
DistribDirs ==
    {DictGet(UploadPackageContext(m, "/tmp/one").meta, "distrib") :
        m \in {mm \in Metas : UploadPackageContext(mm, "/tmp/one").raised = ""}}

StorageNames == FileNames \cup {f \o META_SUFFIX : f \in FileNames}

StoragePaths == DistribDirs \X StorageNames

_package_lock_path(filename) == filename \o LOCK_SUFFIX

_package_path(distrib, filename) == <<distrib, filename>>

_package_meta_path(distrib, filename) == <<distrib, filename \o META_SUFFIX>>

LockPaths == {_package_lock_path(f) : f \in FileNames}

AbsentFile == [state |-> "absent", kind |-> "none", bytes |-> <<>>, meta |-> EmptyDict]

\* A file that was opened for writing and is not written out yet.
PartialFile == [state |-> "partial", kind |-> "none", bytes |-> <<>>, meta |-> EmptyDict]

PackageFile(bytes) ==
    [state |-> "complete", kind |-> "package", bytes |-> bytes, meta |-> EmptyDict]

MetaFile(meta) ==
    [state |-> "complete", kind |-> "meta", bytes |-> <<>>, meta |-> meta]

\* os.path.exists
exists(st, path) == st[path].state # "absent"

\* The test of _upload_package with `and` never true: the pair is overwritten.
package_exists_never(st, distrib, filename) == FALSE

\* exists(pkg_path) and exists(pkg_meta_path).  No file is ever removed, so
\* the two tests read as one.
package_exists(st, distrib, filename) ==
    /\ exists(st, _package_path(distrib, filename))
    /\ exists(st, _package_meta_path(distrib, filename))

\* A FileLock that any number of holders may enter.
lock_is_free_always(lk, lock_path) == TRUE

\* FileLock.acquire's test: the lock file is held by nobody.
lock_is_free(lk, lock_path) == lk[lock_path] = 0

\* A FileLock without a timeout (timeout=-1): the wait is never given up.
lock_timed_out_never(waited) == FALSE

\* FileLock.acquire's test after a failed try: more than timeout has passed.
lock_timed_out(waited) == waited > LOCK_TIMEOUT

\* __init__'s message when the cache directory is missing.
MSG_NO_CACHE == "Cache path not exists"

\* traceback.format_exc(): one token.
TRACEBACK == "Traceback (most recent call last): ..."

\* The messages callers pass to record_error.
ErrorMessages == {"error one", "error two"}

\* The largest number of record_error calls.
MaxErrors == 2

\* FileSystemPkgRepo.__init__: the private fields after construction, given
\* isdir(local_paths.cache) as the constructor found it.  (makedirs of the
\* storage path follows in either case.)
FileSystemPkgRepoPrivateFields(cache_isdir) ==
    IF cache_isdir
    THEN [ready |-> TRUE, err_msg |-> ""]
    ELSE [ready |-> FALSE, err_msg |-> MSG_NO_CACHE]

\* record_error that keeps the message of the first failure.
record_error_first_only(pvt, error_message) ==
    IF pvt.ready THEN [ready |-> FALSE, err_msg |-> error_message] ELSE pvt

\* FileSystemPkgRepo.record_error
record_error(pvt, error_message) == [ready |-> FALSE, err_msg |-> error_message]

\* FileSystemPkgRepo.ready
ready(pvt) == <<pvt.ready, pvt.err_msg>>

\* The methods of FileSystemPkgRepo that carry @record_error_if_raises: the
\* decorator is imported and applied to none.
DecoratedMethods == {}

\* record_error_if_raises(method): an exception of a decorated method is
\* passed to record_error before it is raised again.
record_error_if_raises(method, raised, pvt) ==
    IF raised /\ method \in DecoratedMethods THEN record_error(pvt, TRACEBACK) ELSE pvt

\* The record_error calls so far, after a call of method.
errors_after(method, raised, errs) ==
    IF raised /\ method \in DecoratedMethods THEN Append(errs, TRACEBACK) ELSE errs

IdleCall ==
    [pc |-> "idle", filename |-> <<>>, arg_meta |-> EmptyDict, meta |-> EmptyDict,
     path |-> "", failed |-> FALSE, message |-> <<>>, raised |-> "", waited |-> 0]

NoListing == [called |-> FALSE, raised |-> FALSE, pkg_refs |-> {}, paired |-> {}]

FsInit ==
    /\ storage = [path \in StoragePaths |-> AbsentFile]
    /\ lock = [lock_path \in LockPaths |-> 0]
    /\ up = [p \in Uploaders |-> IdleCall]
    /\ listing = NoListing
    /\ cache_found = TRUE
    /\ private_fields = FileSystemPkgRepoPrivateFields(cache_found)
    /\ errors = <<>>

\* FileSystemPkgRepo(...) where the cache directory may be missing.
ReadyInit ==
    /\ storage = [path \in StoragePaths |-> AbsentFile]
    /\ lock = [lock_path \in LockPaths |-> 0]
    /\ up = [p \in Uploaders |-> IdleCall]
    /\ listing = NoListing
    /\ cache_found \in BOOLEAN
    /\ private_fields = FileSystemPkgRepoPrivateFields(cache_found)
    /\ errors = <<>>

\* ctx.meta_distrib
meta_distrib(p) == DictGet(up[p].meta, "distrib")

\* UploadPackageResult.status of a call that returned.
status(call) == IF call.failed THEN "FAILED" ELSE "SUCCEEDED"

\* A lock that stays held when its holder leaves the block.
Release_kept(p) == lock' = lock

\* Leaving the `with FileLock(...)` block.
Release(p) == lock' = [lock EXCEPT ![_package_lock_path(up[p].filename)] = 0]

\* upload_package(filename, meta, path) up to the call of _upload_package:
\* the context is built; an exception of __post_init__ leaves the call, a
\* failed context returns FAILED, and otherwise the lock is asked for.
\* (The threads are alike: thread p + 1 starts after thread p has.)
UploadCall(p, filename, meta, path) ==
    /\ up[p].pc = "idle"
    /\ IF p = 1 THEN TRUE ELSE up[p - 1].pc # "idle"
    /\ LET ctx == UploadPackageContext(meta, path)
       IN  up' = [up EXCEPT ![p] =
                    [pc |-> IF ctx.raised # "" \/ ctx.failed THEN "done" ELSE "acquire",
                     filename |-> filename, arg_meta |-> meta, meta |-> ctx.meta,
                     path |-> path, failed |-> ctx.failed, message |-> ctx.message,
                     raised |-> ctx.raised, waited |-> 0]]
    /\ LET raised == UploadPackageContext(meta, path).raised # ""
       IN  /\ private_fields' =
                  record_error_if_raises("upload_package", raised, private_fields)
           /\ errors' = errors_after("upload_package", raised, errors)
    /\ UNCHANGED <<storage, lock, listing, cache_found>>
    /\ UNCHANGED notFsVars

\* FileLock.acquire: the lock is free and is taken.
Acquire(p) ==
    /\ up[p].pc = "acquire"
    /\ lock_is_free(lock, _package_lock_path(up[p].filename))
    /\ lock' = [lock EXCEPT ![_package_lock_path(up[p].filename)] = p]
    /\ up' = [up EXCEPT ![p].pc = "check", ![p].waited = 0]
    /\ UNCHANGED <<storage, listing>>
    /\ UNCHANGED readyVars
    /\ UNCHANGED notFsVars

\* FileLock.acquire: the lock is held and the timeout has passed; Timeout is
\* raised and caught by `except TimeoutError`.
Timeout(p) ==
    /\ up[p].pc = "acquire"
    /\ ~lock_is_free(lock, _package_lock_path(up[p].filename))
    /\ lock_timed_out(up[p].waited)
    /\ up' = [up EXCEPT ![p].pc = "done", ![p].failed = TRUE,
                        ![p].message = MSG_TIMEOUT, ![p].waited = 0]
    /\ UNCHANGED <<storage, lock, listing>>
    /\ UNCHANGED readyVars
    /\ UNCHANGED notFsVars

\* Half a second passes for every call that waits for its lock.
Tick ==
    /\ \E p \in Uploaders : up[p].pc = "acquire" /\ up[p].waited <= LOCK_TIMEOUT
    /\ up' = [p \in Uploaders |->
                IF up[p].pc = "acquire" /\ up[p].waited <= LOCK_TIMEOUT
                THEN [up[p] EXCEPT !.waited = @ + 1]
                ELSE up[p]]
    /\ UNCHANGED <<storage, lock, listing>>
    /\ UNCHANGED readyVars
    /\ UNCHANGED notFsVars

\* if exists(pkg_path) and exists(pkg_meta_path): 'Package exists.'
CheckExists(p) ==
    /\ up[p].pc = "check"
    /\ IF package_exists(storage, meta_distrib(p), up[p].filename)
       THEN /\ up' = [up EXCEPT ![p].pc = "done", ![p].failed = TRUE,
                                ![p].message = MSG_EXISTS]
            /\ Release(p)
       ELSE /\ up' = [up EXCEPT ![p].pc = "copy"]
            /\ UNCHANGED lock
    /\ UNCHANGED <<storage, listing>>
    /\ UNCHANGED readyVars
    /\ UNCHANGED notFsVars

\* shutil.copyfile opens the destination: the file is there, not written out.
CopyBegin(p) ==
    /\ up[p].pc = "copy"
    /\ storage' = [storage EXCEPT
                     ![_package_path(meta_distrib(p), up[p].filename)] = PartialFile]
    /\ up' = [up EXCEPT ![p].pc = "copying"]
    /\ UNCHANGED <<lock, listing>>
    /\ UNCHANGED readyVars
    /\ UNCHANGED notFsVars

\* shutil.copyfile returns: the destination holds the source's bytes.
CopyEnd(p) ==
    /\ up[p].pc = "copying"
    /\ storage' = [storage EXCEPT
                     ![_package_path(meta_distrib(p), up[p].filename)] =
                         PackageFile(ReadFile(up[p].path))]
    /\ up' = [up EXCEPT ![p].pc = "write_meta"]
    /\ UNCHANGED <<lock, listing>>
    /\ UNCHANGED readyVars
    /\ UNCHANGED notFsVars

\* write_toml opens the sidecar.
MetaBegin(p) ==
    /\ up[p].pc = "write_meta"
    /\ storage' = [storage EXCEPT
                     ![_package_meta_path(meta_distrib(p), up[p].filename)] = PartialFile]
    /\ up' = [up EXCEPT ![p].pc = "writing_meta"]
    /\ UNCHANGED <<lock, listing>>
    /\ UNCHANGED readyVars
    /\ UNCHANGED notFsVars

\* write_toml returns; the lock is released and upload_package returns.
MetaEnd(p) ==
    /\ up[p].pc = "writing_meta"
    /\ storage' = [storage EXCEPT
                     ![_package_meta_path(meta_distrib(p), up[p].filename)] =
                         MetaFile(up[p].meta)]
    /\ up' = [up EXCEPT ![p].pc = "done"]
    /\ Release(p)
    /\ UNCHANGED listing
    /\ UNCHANGED readyVars
    /\ UNCHANGED notFsVars

\* shutil.copyfile or write_toml raises (an I/O error): `except Exception`
\* fails the context; what was written so far stays.
SaveRaises(p) ==
    /\ up[p].pc \in {"copy", "copying", "write_meta", "writing_meta"}
    /\ up' = [up EXCEPT ![p].pc = "done", ![p].failed = TRUE,
                        ![p].message = MSG_EXCEPTION]
    /\ Release(p)
    /\ UNCHANGED <<storage, listing>>
    /\ UNCHANGED readyVars
    /\ UNCHANGED notFsVars

\* pydantic's validation of FileSystemPkgRef(**kwargs): type has a default,
\* every other field of PkgRef and of FileSystemPkgRef is required.
FileSystemPkgRefFields ==
    {"distrib", "package", "ext", "sha256", "meta", "package_path", "meta_path"}

FileSystemPkgRefValid(kwargs) == FileSystemPkgRefFields \subseteq kwargs

\* The keyword arguments collect_all_published_packages passes.
CollectKwargs == {"package_path", "meta_path"}

\* collect_all_published_packages on the storage st: per distribution
\* directory, the children ending in META_SUFFIX are sidecars, filed under
\* the name without the suffix, the others are packages; a ref is built for
\* each name filed as both.
\* (paired: the names of line 197's loop, for which a ref is built.)
collect_all_published_packages(st) ==
    LET children(d) == {n \in StorageNames : exists(st, <<d, n>>)}
        filename_to_meta(d) ==
            {SubSeq(n, 1, Len(n) - Len(META_SUFFIX)) :
                n \in {c \in children(d) : EndsWith(c, META_SUFFIX)}}
        filename_to_package(d) == {c \in children(d) : ~EndsWith(c, META_SUFFIX)}
        paired == UNION {{<<d, f>> : f \in filename_to_package(d) \cap filename_to_meta(d)} :
                           d \in DistribDirs}
    IN  IF paired # {} /\ ~FileSystemPkgRefValid(CollectKwargs)
        THEN [called |-> TRUE, raised |-> TRUE, pkg_refs |-> {}, paired |-> paired]
        ELSE [called |-> TRUE, raised |-> FALSE,
              pkg_refs |-> {[package_path |-> <<pr[1], pr[2]>>,
                             meta_path |-> <<pr[1], pr[2] \o META_SUFFIX>>] :
                               pr \in paired},
              paired |-> paired]

Collect ==
    /\ listing' = collect_all_published_packages(storage)
    /\ LET raised == collect_all_published_packages(storage).raised
       IN  /\ private_fields' =
                  record_error_if_raises("collect_all_published_packages", raised,
                                         private_fields)
           /\ errors' = errors_after("collect_all_published_packages", raised, errors)
    /\ UNCHANGED <<storage, lock, up, cache_found>>
    /\ UNCHANGED notFsVars

FsNext ==
    \/ \E p \in Uploaders, filename \in FileNames, meta \in Metas, path \in SourcePaths :
          UploadCall(p, filename, meta, path)
    \/ \E p \in Uploaders : Acquire(p)
    \/ \E p \in Uploaders : Timeout(p)
    \/ Tick
    \/ \E p \in Uploaders : CheckExists(p)
    \/ \E p \in Uploaders : CopyBegin(p)
    \/ \E p \in Uploaders : CopyEnd(p)
    \/ \E p \in Uploaders : MetaBegin(p)
    \/ \E p \in Uploaders : MetaEnd(p)
    \/ \E p \in Uploaders : SaveRaises(p)
    \/ Collect

\* repo.record_error(error_message), by a caller that met a failure.
RecordError(error_message) ==
    /\ Len(errors) < MaxErrors
    /\ private_fields' = record_error(private_fields, error_message)
    /\ errors' = Append(errors, error_message)
    /\ UNCHANGED <<storage, lock, up, listing, cache_found>>
    /\ UNCHANGED notFsVars

\* The one thread of the readiness scenarios.
ReadyCaller == 1

\* The backend with one caller, built with or without its cache directory.
ReadyNext ==
    \/ \E filename \in FileNames, meta \in Metas, path \in SourcePaths :
          UploadCall(ReadyCaller, filename, meta, path)
    \/ Acquire(ReadyCaller)
    \/ CheckExists(ReadyCaller)
    \/ CopyBegin(ReadyCaller)
    \/ CopyEnd(ReadyCaller)
    \/ MetaBegin(ReadyCaller)
    \/ MetaEnd(ReadyCaller)
    \/ SaveRaises(ReadyCaller)
    \/ Collect
    \/ \E error_message \in ErrorMessages : RecordError(error_message)

(***************************************************************************)
(* The file-system backend: claims                                         *)
(***************************************************************************)
\* upload_package returned a result (it did not raise).
Returned(call) == call.pc = "done" /\ call.raised = ""

\* Inside `with FileLock(...)`: from the test for the pair to the last write.
InSection(call) ==
    call.pc \in {"check", "copy", "copying", "write_meta", "writing_meta"}

\* Both files of (distrib, filename) are there.
PairStored(st, distrib, filename) ==
    /\ st[<<distrib, filename>>].state # "absent"
    /\ st[<<distrib, filename \o META_SUFFIX>>].state # "absent"

\* C4 (the first upload): a call that was sent only a name and returns
\* SUCCEEDED has derived distrib = "pkg" from "Pkg" and the sha256 of the
\* source file, and has just written them to the sidecar.
C4_FirstUpload ==
    \A p \in Uploaders :
        (/\ up[p].pc = "writing_meta"
         /\ up[p].arg_meta = MetaName
         /\ Returned(up'[p])
         /\ status(up'[p]) = "SUCCEEDED") =>
            LET sidecar == storage'[<<(<<"p", "k", "g">>), up[p].filename \o META_SUFFIX>>]
            IN  /\ DictGet(up'[p].meta, "distrib") = <<"p", "k", "g">>
                /\ DictGet(up'[p].meta, "sha256") = Sha256Hex(ReadFile(up[p].path))
                /\ sidecar.state = "complete"
                /\ sidecar.meta = up'[p].meta
                /\ storage'[<<(<<"p", "k", "g">>), up[p].filename>>].state # "absent"

\* C4 (the second upload): a call that holds the lock and finds the package
\* file and the sidecar of its filename returns FAILED with a message
\* containing "exists" and writes nothing; one that does not find both goes
\* on to store them.
C4_SecondUpload ==
    \A p \in Uploaders :
        (up[p].pc = "check" /\ up'[p] # up[p]) =>
            IF PairStored(storage, DictGet(up[p].meta, "distrib"), up[p].filename)
            THEN /\ Returned(up'[p])
                 /\ status(up'[p]) = "FAILED"
                 /\ Contains(up'[p].message, <<"e", "x", "i", "s", "t", "s">>)
                 /\ storage' = storage
            ELSE up'[p].pc = "copy"

\* C4: uploading the same filename twice with only a name in the metadata.
C4_UploadTwice == [][C4_FirstUpload /\ C4_SecondUpload]_vars

\* C4's case: of two returned uploads of one filename, both sent only a name,
\* one SUCCEEDED and the other FAILED with 'Package exists.'.
C4_Witness ==
    \E p, q \in Uploaders :
        /\ p # q
        /\ Returned(up[p]) /\ Returned(up[q])
        /\ up[p].filename = up[q].filename
        /\ up[p].arg_meta = MetaName /\ up[q].arg_meta = MetaName
        /\ status(up[p]) = "SUCCEEDED"
        /\ status(up[q]) = "FAILED"
        /\ up[q].message = MSG_EXISTS

\* C5: an upload whose metadata has neither a distribution name nor a package
\* name returns (it does not raise) a FAILED result whose message contains
\* "distribution name".
C5_NoDistribFails ==
    \A p \in Uploaders :
        (/\ up[p].pc = "done"
         /\ ~Truthy(up[p].arg_meta, "distrib")
         /\ ~Truthy(up[p].arg_meta, "name")) =>
            /\ up[p].raised = ""
            /\ status(up[p]) = "FAILED"
            /\ Contains(up[p].message,
                        <<"d", "i", "s", "t", "r", "i", "b", "u", "t", "i", "o", "n",
                          " ", "n", "a", "m", "e">>)

\* C6: no two uploads of one filename are inside the locked section together,
\* and of the returned uploads of one filename and distribution at most one
\* SUCCEEDED.
C6_Serialized ==
    \A p, q \in Uploaders :
        (p # q /\ up[p].filename = up[q].filename) =>
            /\ ~(InSection(up[p]) /\ InSection(up[q]))
            /\ ~(/\ Returned(up[p]) /\ status(up[p]) = "SUCCEEDED"
                 /\ Returned(up[q]) /\ status(up[q]) = "SUCCEEDED"
                 /\ DictGet(up[p].meta, "distrib") = DictGet(up[q].meta, "distrib"))

\* C6's case: one upload is copying while another of the same filename and
\* distribution has waited for the lock.
C6_Witness ==
    \E p, q \in Uploaders :
        /\ p # q
        /\ up[p].pc = "copying"
        /\ up[q].pc = "acquire" /\ up[q].waited >= 1
        /\ up[p].filename = up[q].filename
        /\ up[p].meta = up[q].meta

\* The call of p has waited longer than the timeout for a lock another holds.
WaitedOut(p) ==
    /\ up[p].pc = "acquire"
    /\ up[p].waited > LOCK_TIMEOUT
    /\ lock[up[p].filename \o LOCK_SUFFIX] \notin {0, p}

\* C7: an upload that has waited longer than LOCK_TIMEOUT for a lock that
\* another upload holds can give up, and its next step returns FAILED with a
\* message containing "timeout", without an exception and with nothing
\* written.
C7_LockTimeout ==
    /\ [](\A p \in Uploaders : WaitedOut(p) => ENABLED Timeout(p))
    /\ [][\A p \in Uploaders :
            (WaitedOut(p) /\ up'[p] # up[p]) =>
                /\ Returned(up'[p])
                /\ status(up'[p]) = "FAILED"
                /\ Contains(up'[p].message, <<"t", "i", "m", "e", "o", "u", "t">>)
                /\ storage' = storage]_vars

\* C7's case: an upload returned the timeout failure while the upload that
\* holds the lock of its filename is still inside the section.
C7_Witness ==
    \E p, q \in Uploaders :
        /\ p # q
        /\ Returned(up[p])
        /\ up[p].message = MSG_TIMEOUT
        /\ lock[up[p].filename \o LOCK_SUFFIX] = q
        /\ InSection(up[q])

\* C8: collect_all_published_packages does not raise, and returns one ref for
\* each filename that has its package file and its sidecar in one
\* distribution directory, and no other ref.
C8_Pairing ==
    [][listing' # listing =>
        /\ ~listing'.raised
        /\ listing'.pkg_refs =
              {[package_path |-> <<pr[1], pr[2]>>,
                meta_path |-> <<pr[1], pr[2] \o META_SUFFIX>>] :
                  pr \in {x \in DistribDirs \X FileNames :
                            PairStored(storage, x[1], x[2])}}]_vars

C18_LockReleased ==
    /\ \A lock_path \in LockPaths :
          lock[lock_path] # 0 =>
              /\ InSection(up[lock[lock_path]])
              /\ up[lock[lock_path]].filename \o LOCK_SUFFIX = lock_path
    /\ \A p \in Uploaders :
          up[p].pc \in {"idle", "acquire", "done"} =>
              \A lock_path \in LockPaths : lock[lock_path] # p
    /\ \A p \in Uploaders :
          (/\ up[p].pc = "acquire"
           /\ \A q \in Uploaders \ {p} :
                 up[q].filename = up[p].filename => ~InSection(up[q]))
              => ENABLED Acquire(p)

\* C18's case: an upload left the section by an exception while copying or
\* writing the metadata, and another upload of the same filename is inside
\* the section after it.
C18_Witness ==
    \E p, q \in Uploaders :
        /\ p # q
        /\ up[p].pc = "done"
        /\ up[p].message = MSG_EXCEPTION
        /\ up[q].filename = up[p].filename
        /\ lock[up[p].filename \o LOCK_SUFFIX] = q
        /\ InSection(up[q])

\* C12: when upload_package or collect_all_published_packages raises, the
\* failure has been passed to record_error: right after the call ready()
\* returns (False, the failure's traceback).
C12_FailureRecorded ==
    [][((\E p \in Uploaders : up[p].raised = "" /\ up'[p].raised # "")
            \/ (listing' # listing /\ listing'.raised)) =>
        ready(private_fields') = <<FALSE, TRACEBACK>>]_vars

\* C13: a backend that was built without its cache directory reports
\* (False, 'Cache path not exists') until told of another failure, every
\* upload_package call on it has returned a failure or raised without taking
\* a step in storage, every collect_all_published_packages call on it has
\* failed, and its storage holds no file.
C13_NotReadyRefuses ==
    ~cache_found =>
        /\ ~ready(private_fields)[1]
        /\ errors = <<>> => ready(private_fields) = <<FALSE, MSG_NO_CACHE>>
        /\ \A p \in Uploaders :
              /\ up[p].pc \in {"idle", "done"}
              /\ up[p].pc = "done" => (up[p].failed \/ up[p].raised # "")
        /\ listing.called => listing.raised
        /\ \A path \in StoragePaths : storage[path].state = "absent"

\* C14: once record_error has been called, ready() returns (False, m) with m
\* the message of the latest call, whatever else was called since.
C14_NotReadySticks ==
    errors # <<>> => ready(private_fields) = <<FALSE, errors[Len(errors)]>>

\* C14's case: record_error was called twice with different messages on an
\* instance that has also stored an upload and listed its storage.
C14_Witness ==
    /\ Len(errors) = 2
    /\ errors[1] # errors[2]
    /\ Returned(up[ReadyCaller]) /\ status(up[ReadyCaller]) = "SUCCEEDED"
    /\ listing.called
    /\ ready(private_fields) = <<FALSE, errors[2]>>

(***************************************************************************)
(* Authorization: FileSystemPkgRepo.auth_read / auth_write                 *)
(***************************************************************************)
\* Raw secrets: the empty string, the test kit's read and write secrets, and
\* one that no configuration below grants anything.
Tokens == {"", "foo", "bar", "baz"}

\* The secrets a configuration may name.
ConfigSecrets == {"", "foo", "bar"}

\* FileSystemConfig(**kwargs): read_secret and write_secret default to ''.
FileSystemConfig(kwargs) ==
    [read_secret |-> IF DictHas(kwargs, "read_secret")
                     THEN DictGet(kwargs, "read_secret") ELSE "",
     write_secret |-> IF DictHas(kwargs, "write_secret")
                      THEN DictGet(kwargs, "write_secret") ELSE ""]

\* The keyword arguments a configuration is built from: each secret is given
\* or left to its default.
ConfigKwargs ==
    {EmptyDict}
    \cup {<< <<"read_secret", r>> >> : r \in ConfigSecrets}
    \cup {<< <<"write_secret", w>> >> : w \in ConfigSecrets}
    \cup {<< <<"read_secret", r>>, <<"write_secret", w>> >> :
            r \in ConfigSecrets, w \in ConfigSecrets}

\* FileSystemTestKit.setup_pkg_repo: read_secret 'foo', write_secret 'bar'.
TestKitConfig ==
    FileSystemConfig(<< <<"read_secret", "foo">>, <<"write_secret", "bar">> >>)

\* FileSystemSecret.token
token(raw) == raw

\* FileSystemPkgRepo.auth_read
auth_read(cfg, raw) == token(raw) \in {cfg.read_secret, cfg.write_secret}

\* auth_write with auth_read's test: the read secret may write.
auth_write_as_read(cfg, raw) == token(raw) \in {cfg.read_secret, cfg.write_secret}

\* FileSystemPkgRepo.auth_write
auth_write(cfg, raw) == token(raw) = cfg.write_secret

NoAuth == [read_called |-> FALSE, read |-> FALSE, write_called |-> FALSE, write |-> FALSE]

AuthParked ==
    /\ config = FileSystemConfig(EmptyDict)
    /\ secret = ""
    /\ auth = NoAuth

\* A repo is built from a configuration and a presented secret.
AuthInit ==
    /\ \E kwargs \in ConfigKwargs : config = FileSystemConfig(kwargs)
    /\ secret \in Tokens
    /\ auth = NoAuth

\* repo.auth_read()
AuthRead ==
    /\ auth' = [auth EXCEPT !.read_called = TRUE, !.read = auth_read(config, secret)]
    /\ UNCHANGED <<config, secret>>
    /\ UNCHANGED notAuthVars

\* repo.auth_write()
AuthWrite ==
    /\ auth' = [auth EXCEPT !.write_called = TRUE, !.write = auth_write(config, secret)]
    /\ UNCHANGED <<config, secret>>
    /\ UNCHANGED notAuthVars

AuthNext == AuthRead \/ AuthWrite

\* C9: auth_write is false for a secret that grants read only (the secret is
\* the configured read secret and not the configured write secret), and
\* where auth_write is true auth_read is true.
C9_WriteNeedsWriteSecret ==
    /\ (auth.write_called /\ secret = config.read_secret
            /\ secret # config.write_secret) => ~auth.write
    /\ (auth.write_called /\ auth.write) => secret = config.write_secret
    /\ (auth.write_called /\ auth.write /\ auth.read_called) => auth.read

\* C9's case: the read secret of a configuration with another write secret
\* was presented; it was granted read and refused write.
C9_Witness ==
    /\ config.read_secret = "foo"
    /\ config.write_secret = "bar"
    /\ secret = "foo"
    /\ auth.read_called /\ auth.read
    /\ auth.write_called /\ ~auth.write

(***************************************************************************)
(* The authentication cache of the workflow                                *)
(***************************************************************************)
\* The last instant of the model's clock.
MaxTime == 2

\* The largest auth_read_expires / auth_write_expires.
MaxTTL == 1

Modes == {"read", "write"}

\* The secrets presented to the workflow.
CacheTokens == {"foo", "bar"}

\* FileSystemSecret.secret_hash: 'fs-' + sha256(raw).hexdigest()
secret_hash(raw) == <<"fs-", "sha256 of", raw>>

SecretHashes == {secret_hash(raw) : raw \in CacheTokens}

NoEntry == [cached |-> FALSE, decision |-> FALSE, timestamp |-> 0]

NoRequest ==
    [called |-> FALSE, mode |-> "read", hash |-> secret_hash("foo"), at |-> 0,
     invoked |-> FALSE, decision |-> FALSE]

CacheParked ==
    /\ auth_cache = [mode \in Modes |-> [h \in SecretHashes |-> NoEntry]]
    /\ ttl = [mode \in Modes |-> 0]
    /\ now = 0
    /\ last_auth = NoRequest

\* build_workflow_stat(auth_read_expires=..., auth_write_expires=...)
CacheInit ==
    /\ auth_cache = [mode \in Modes |-> [h \in SecretHashes |-> NoEntry]]
    /\ ttl \in [Modes -> 0..MaxTTL]
    /\ now = 0
    /\ last_auth = NoRequest

\* A cache entry that is taken although its age has reached the TTL.
cache_is_fresh_at_ttl(entry, time, expires) ==
    entry.cached /\ time - entry.timestamp <= expires

\* Step 2 of the authentication request: an entry exists and
\* now - timestamp < TTL.
cache_is_fresh(entry, time, expires) ==
    entry.cached /\ time - entry.timestamp < expires

\* The backend's decision for a mode.
backend_auth(mode, cfg, raw) ==
    IF mode = "read" THEN auth_read(cfg, raw) ELSE auth_write(cfg, raw)

\* pkg_repo_secret_is_authenticated(wstat, name, secret, check_auth_read):
\* a fresh entry is returned as it is; otherwise the backend is asked and its
\* decision is stored with the current time.
Authenticate(raw, mode) ==
    LET h == secret_hash(raw)
        entry == auth_cache[mode][h]
    IN  /\ IF cache_is_fresh(entry, now, ttl[mode])
           THEN /\ last_auth' = [called |-> TRUE, mode |-> mode, hash |-> h, at |-> now,
                                 invoked |-> FALSE, decision |-> entry.decision]
                /\ UNCHANGED auth_cache
           ELSE LET decision == backend_auth(mode, config, raw)
                IN  /\ last_auth' = [called |-> TRUE, mode |-> mode, hash |-> h,
                                     at |-> now, invoked |-> TRUE,
                                     decision |-> decision]
                    /\ auth_cache' = [auth_cache EXCEPT ![mode][h] =
                                        [cached |-> TRUE, decision |-> decision,
                                         timestamp |-> now]]
        /\ UNCHANGED <<ttl, now>>
        /\ UNCHANGED notCacheVars

\* A second passes.
ClockTick ==
    /\ now < MaxTime
    /\ now' = now + 1
    /\ UNCHANGED <<auth_cache, ttl, last_auth>>
    /\ UNCHANGED notCacheVars

CacheNext ==
    \/ \E raw \in CacheTokens, mode \in Modes : Authenticate(raw, mode)
    \/ ClockTick

\* C10: a request made while the entry of its secret and mode exists and is
\* younger than the TTL returns the cached decision without invoking the
\* backend and leaves the cache alone; any other request invokes the backend
\* and stores its decision with the current time.
C10_CacheTTL ==
    [][last_auth' # last_auth =>
        LET mode == last_auth'.mode
            entry == auth_cache[mode][last_auth'.hash]
        IN  IF entry.cached /\ now - entry.timestamp < ttl[mode]
            THEN /\ ~last_auth'.invoked
                 /\ last_auth'.decision = entry.decision
                 /\ auth_cache' = auth_cache
            ELSE /\ last_auth'.invoked
                 /\ auth_cache'[mode][last_auth'.hash] =
                       [cached |-> TRUE, decision |-> last_auth'.decision,
                        timestamp |-> now]
                 /\ \A m \in Modes, h \in SecretHashes :
                       <<m, h>> # <<mode, last_auth'.hash>> =>
                           auth_cache'[m][h] = auth_cache[m][h]]_vars

\* C10's case: with a TTL of 1, a request found its entry as old as the TTL
\* and invoked the backend again, storing the decision with the current time.
C10_Witness ==
    /\ last_auth.called
    /\ ttl[last_auth.mode] = 1
    /\ last_auth.invoked
    /\ last_auth.at >= 1
    /\ auth_cache[last_auth.mode][last_auth.hash].timestamp = last_auth.at
    /\ \E m \in Modes, h \in SecretHashes :
          auth_cache[m][h].cached /\ auth_cache[m][h].timestamp < last_auth.at

(***************************************************************************)
(* The index synchronization cycle of the workflow                         *)
(***************************************************************************)
\* The largest number of refs in a downloaded index.
MaxPayload == 2

\* The refs a published index may list: those of the distribution "pkg".
SyncRefs == {ref \in PkgRefs : ref.distrib = <<"p", "k", "g">>}

RECURSIVE SeqsUpTo(_, _)
SeqsUpTo(S, n) ==
    IF n = 0 THEN {<<>>}
    ELSE LET shorter == SeqsUpTo(S, n - 1)
         IN  shorter \cup {Append(s, x) : s \in shorter, x \in S}

\* The published indexes a download may bring; one that lists a package
\* identifier twice is malformed.
Payloads == SeqsUpTo(SyncRefs, MaxPayload)

EmptyIndex == [d2r |-> EmptyDict, p2r |-> EmptyDict]

\* The index a payload deserializes to, where it is well formed.
IndexOf(payload) ==
    LET built == load_pkg_repo_index(<< <<"pkgs", payload>> >>)
    IN  [d2r |-> built.d2r, p2r |-> built.p2r]

WellFormed(payload) == ~load_pkg_repo_index(<< <<"pkgs", payload>> >>).raised

IdleSync ==
    [pc |-> "idle", previous |-> EmptyIndex, payload |-> <<>>, pos |-> 1,
     building |-> EmptyIndex, failed_at |-> "", swapped |-> FALSE]

NoRead == [called |-> FALSE, index |-> EmptyIndex]

\* build_workflow_stat: the workflow starts with an index per instance.
SyncInit ==
    /\ held_index = EmptyIndex
    /\ sync = IdleSync
    /\ last_read = NoRead

\* The scheduler's tick: a cycle begins by checking the local index.
SyncStart ==
    /\ sync.pc = "idle"
    /\ sync' = [IdleSync EXCEPT !.pc = "checking", !.previous = held_index]
    /\ UNCHANGED <<held_index, last_read>>
    /\ UNCHANGED notSyncVars

\* local_index_is_up_to_date answers yes: the cycle ends.
CheckUpToDate ==
    /\ sync.pc = "checking"
    /\ sync' = [sync EXCEPT !.pc = "idle"]
    /\ UNCHANGED <<held_index, last_read>>
    /\ UNCHANGED notSyncVars

\* local_index_is_up_to_date answers no, or no local copy is held.
CheckStale ==
    /\ sync.pc = "checking"
    /\ sync' = [sync EXCEPT !.pc = "downloading"]
    /\ UNCHANGED <<held_index, last_read>>
    /\ UNCHANGED notSyncVars

\* The check fails: back to idle.
CheckFails ==
    /\ sync.pc = "checking"
    /\ sync' = [sync EXCEPT !.pc = "idle", !.failed_at = "checking"]
    /\ UNCHANGED <<held_index, last_read>>
    /\ UNCHANGED notSyncVars

\* download_index brings the published index.
Download(payload) ==
    /\ sync.pc = "downloading"
    /\ sync' = [sync EXCEPT !.pc = "rebuilding", !.payload = payload, !.pos = 1,
                            !.building = EmptyIndex]
    /\ UNCHANGED <<held_index, last_read>>
    /\ UNCHANGED notSyncVars

\* download_index fails: logged, the last good index is retained.
DownloadFails ==
    /\ sync.pc = "downloading"
    /\ sync' = [sync EXCEPT !.pc = "idle", !.failed_at = "downloading"]
    /\ UNCHANGED <<held_index, last_read>>
    /\ UNCHANGED notSyncVars

\* The replacement is built as if swapped at any moment of the rebuild.
rebuild_complete_always(cycle) == TRUE

\* The replacement is built fully: every ref of the payload was added.
rebuild_complete(cycle) == cycle.pos > Len(cycle.payload)

\* One insertion of the rebuild, PkgRepoIndex.__init__'s loop body, into the
\* replacement; a duplicated package identifier (malformed payload) fails the
\* cycle.
RebuildStep ==
    /\ sync.pc = "rebuilding"
    /\ sync.pos <= Len(sync.payload)
    /\ LET r == add_pkg_ref(sync.building.d2r, sync.building.p2r, sync.payload[sync.pos])
       IN  sync' = IF r.raised
                   THEN [sync EXCEPT !.pc = "idle", !.failed_at = "rebuilding"]
                   ELSE [sync EXCEPT !.pos = @ + 1,
                                     !.building = [d2r |-> r.d2r, p2r |-> r.p2r]]
    /\ UNCHANGED <<held_index, last_read>>
    /\ UNCHANGED notSyncVars

\* The swap of the single reference to the held index.
Swap ==
    /\ sync.pc = "rebuilding"
    /\ rebuild_complete(sync)
    /\ held_index' = sync.building
    /\ sync' = [sync EXCEPT !.pc = "swapped", !.swapped = TRUE]
    /\ UNCHANGED last_read
    /\ UNCHANGED notSyncVars

\* The new index's timestamp and size are recorded; the cycle ends.
SyncFinish ==
    /\ sync.pc = "swapped"
    /\ sync' = [sync EXCEPT !.pc = "idle"]
    /\ UNCHANGED <<held_index, last_read>>
    /\ UNCHANGED notSyncVars

\* A request handler reads the held index.
ReadIndex ==
    /\ last_read' = [called |-> TRUE, index |-> held_index]
    /\ UNCHANGED <<held_index, sync>>
    /\ UNCHANGED notSyncVars

SyncNext ==
    \/ SyncStart
    \/ CheckUpToDate
    \/ CheckStale
    \/ CheckFails
    \/ \E payload \in Payloads : Download(payload)
    \/ DownloadFails
    \/ RebuildStep
    \/ Swap
    \/ SyncFinish
    \/ ReadIndex

\* The indexes a reader may see during and after a cycle: the one held when
\* the cycle began, and the one its payload deserializes to.
CompleteIndexes(cycle) ==
    {cycle.previous} \cup
        (IF WellFormed(cycle.payload) THEN {IndexOf(cycle.payload)} ELSE {})

\* C11: the held index, and what a reader gets of it, is the complete index
\* of before the cycle or the complete index of the cycle's payload; a cycle
\* that fails at checking, downloading or rebuilding has left the held index
\* as it was before the cycle.
C11_AtomicSwap ==
    /\ [](held_index \in CompleteIndexes(sync))
    /\ [][last_read' # last_read =>
            last_read'.index \in CompleteIndexes(sync)]_vars
    /\ [](sync.failed_at # "" => held_index = sync.previous)
    /\ [](~sync.swapped => held_index = sync.previous)

\* C11's case: a reader has read the previous index, of one ref, while the
\* rebuild of an index of two refs had added its first.
C11_Witness ==
    /\ sync.pc = "rebuilding"
    /\ Len(sync.payload) = 2
    /\ sync.pos = 2
    /\ Len(sync.previous.p2r) = 1
    /\ sync.building # sync.previous
    /\ last_read.called
    /\ last_read.index = sync.previous

(***************************************************************************)
(* The backend registry: BackendInstanceManager                            *)
(***************************************************************************)
\* The abstract types of backend.py.
BaseClasses == {"PkgRepoConfig", "PkgRepoSecret", "PkgRepo", "PkgRef"}

\* The base of each concrete type of the backends.
Bases ==
    [cls \in {"FileSystemConfig", "GitHubConfig"} |-> "PkgRepoConfig"]
    @@ [cls \in {"FileSystemSecret", "GitHubAuthToken"} |-> "PkgRepoSecret"]
    @@ [cls \in {"FileSystemPkgRepo", "GitHubPkgRepo"} |-> "PkgRepo"]
    @@ [cls \in {"FileSystemPkgRef", "GitHubPkgRef"} |-> "PkgRef"]

\* issubclass(cls, base)
issubclass(cls, base) ==
    cls = base \/ (cls \in DOMAIN Bases /\ Bases[cls] = base)

\* class BackendRegistration: the defaults a subclass inherits.
BackendRegistration ==
    [found |-> TRUE, type |-> "",
     pkg_repo_config_cls |-> "PkgRepoConfig", pkg_repo_secret_cls |-> "PkgRepoSecret",
     pkg_repo_cls |-> "PkgRepo", pkg_ref_cls |-> "PkgRef"]

\* A module without a registration class.
NoRegistration == [BackendRegistration EXCEPT !.found = FALSE]

FileSystemRegistration ==
    [found |-> TRUE, type |-> "file_system",
     pkg_repo_config_cls |-> "FileSystemConfig",
     pkg_repo_secret_cls |-> "FileSystemSecret",
     pkg_repo_cls |-> "FileSystemPkgRepo", pkg_ref_cls |-> "FileSystemPkgRef"]

GitHubRegistration ==
    [found |-> TRUE, type |-> "github",
     pkg_repo_config_cls |-> "GitHubConfig", pkg_repo_secret_cls |-> "GitHubAuthToken",
     pkg_repo_cls |-> "GitHubPkgRepo", pkg_ref_cls |-> "GitHubPkgRef"]

\* What a module under private_pypi.backends may hold: no registration, a
\* full one, one that names no type, or one that leaves a class at its
\* inherited abstract default.
ModuleRegistrations ==
    {NoRegistration, FileSystemRegistration, GitHubRegistration,
     [FileSystemRegistration EXCEPT !.type = ""],
     [GitHubRegistration EXCEPT !.pkg_ref_cls = "PkgRef"],
     [FileSystemRegistration EXCEPT !.pkg_repo_config_cls = "PkgRepoConfig"]}

\* The largest number of modules under private_pypi.backends.
MaxModules == 2

ModuleLists == SeqsUpTo(ModuleRegistrations, MaxModules)

\* The type validation of __init__: the four asserts after `assert type`.
RegistrationValid(registration) ==
    /\ registration.type # ""
    /\ issubclass(registration.pkg_repo_config_cls, "PkgRepoConfig")
    /\ registration.pkg_repo_config_cls # "PkgRepoConfig"
    /\ issubclass(registration.pkg_repo_secret_cls, "PkgRepoSecret")
    /\ registration.pkg_repo_secret_cls # "PkgRepoSecret"
    /\ issubclass(registration.pkg_repo_cls, "PkgRepo")
    /\ registration.pkg_repo_cls # "PkgRepo"
    /\ issubclass(registration.pkg_ref_cls, "PkgRef")
    /\ registration.pkg_ref_cls # "PkgRef"

\* BackendInstanceManager.__init__: the modules are visited in order; one
\* without a registration is skipped, a failed assert leaves the constructor,
\* and a later registration of a type replaces an earlier one.
RECURSIVE RegisterFrom(_, _, _)
RegisterFrom(module_list, i, type_to_registration) ==
    IF i > Len(module_list)
    THEN [raised |-> FALSE, type_to_registration |-> type_to_registration]
    ELSE LET registration == module_list[i]
         IN  IF ~registration.found
             THEN RegisterFrom(module_list, i + 1, type_to_registration)
             ELSE IF ~RegistrationValid(registration)
             THEN [raised |-> TRUE, type_to_registration |-> EmptyDict]
             ELSE RegisterFrom(module_list, i + 1,
                               DictSet(type_to_registration, registration.type,
                                       registration))

BackendInstanceManager(module_list) == RegisterFrom(module_list, 1, EmptyDict)

\* _registration with an unknown type answered by the first registration.
_registration_fallback(type_to_registration, kwargs) ==
    IF DictHas(kwargs, "type") /\ DictHas(type_to_registration, DictGet(kwargs, "type"))
    THEN [raised |-> "", registration |-> DictGet(type_to_registration,
                                                  DictGet(kwargs, "type"))]
    ELSE IF type_to_registration # EmptyDict
    THEN [raised |-> "", registration |-> type_to_registration[1][2]]
    ELSE [raised |-> "AssertionError", registration |-> NoRegistration]

\* BackendInstanceManager._registration: the two asserts, then the lookup.
_registration(type_to_registration, kwargs) ==
    IF ~DictHas(kwargs, "type")
    THEN [raised |-> "AssertionError", registration |-> NoRegistration]
    ELSE IF ~DictHas(type_to_registration, DictGet(kwargs, "type"))
    THEN [raised |-> "AssertionError", registration |-> NoRegistration]
    ELSE [raised |-> "", registration |-> DictGet(type_to_registration,
                                                  DictGet(kwargs, "type"))]

\* The four create_* methods, by the field of the registration they call.
CreateMethods ==
    {"pkg_repo_config_cls", "pkg_repo_secret_cls", "pkg_repo_cls", "pkg_ref_cls"}

\* create_pkg_repo_config / _secret / create_pkg_repo / create_pkg_ref: the
\* exception of _registration ("" for none) and the class whose constructor
\* was called with kwargs ("none" when none was).
create(type_to_registration, method, kwargs) ==
    LET r == _registration(type_to_registration, kwargs)
    IN  IF r.raised # ""
        THEN [raised |-> r.raised, cls |-> "none"]
        ELSE [raised |-> "", cls |-> r.registration[method]]

\* The untyped bundles handed to create_*: without a type, and with the type
\* of each backend and of none.
CreateKwargs ==
    {<< <<"name", "main">> >>}
    \cup {<< <<"name", "main">>, <<"type", t>> >> :
            t \in {"file_system", "github", "s3"}}

NoCreate ==
    [called |-> FALSE, method |-> "pkg_repo_config_cls", kwargs |-> EmptyDict,
     raised |-> "", cls |-> "none"]

RegistryParked ==
    /\ modules = <<>>
    /\ manager = BackendInstanceManager(modules)
    /\ created = NoCreate

\* BackendInstanceManager() over the modules that are installed.
RegistryInit ==
    /\ modules \in ModuleLists
    /\ manager = BackendInstanceManager(modules)
    /\ created = NoCreate

\* manager.create_*(**kwargs), on a manager whose constructor returned.
Create(method, kwargs) ==
    /\ ~manager.raised
    /\ LET r == create(manager.type_to_registration, method, kwargs)
       IN  created' = [called |-> TRUE, method |-> method, kwargs |-> kwargs,
                       raised |-> r.raised, cls |-> r.cls]
    /\ UNCHANGED <<modules, manager>>
    /\ UNCHANGED notRegistryVars

RegistryNext ==
    \E method \in CreateMethods, kwargs \in CreateKwargs : Create(method, kwargs)

\* The registration of a type in the manager, as the registry lists it.
Registered(type) ==
    {manager.type_to_registration[i][2] :
        i \in {j \in DOMAIN manager.type_to_registration :
                  manager.type_to_registration[j][1] = type}}

\* cls is a concrete type whose base is the abstract type base.
StrictlyBelow(cls, base) ==
    /\ cls \notin BaseClasses
    /\ \E c \in DOMAIN Bases : c = cls /\ Bases[c] = base

\* C15: a create_* call whose bundle names a registered type has called the
\* constructor that the registration of that type holds for the method; one
\* whose bundle has no type or names an unregistered one has raised and has
\* called no constructor; every registration of a manager carries a type and
\* four classes that specialize their abstract types and are none of them.
C15_Dispatch ==
    /\ created.called =>
          LET typed == \E i \in DOMAIN created.kwargs : created.kwargs[i][1] = "type"
              type == (CHOOSE i \in DOMAIN created.kwargs :
                          created.kwargs[i][1] = "type")
          IN  IF typed /\ Registered(created.kwargs[type][2]) # {}
              THEN /\ created.raised = ""
                   /\ \E registration \in Registered(created.kwargs[type][2]) :
                         created.cls = registration[created.method]
                   /\ created.cls \notin BaseClasses \cup {"none"}
              ELSE /\ created.raised # ""
                   /\ created.cls = "none"
    /\ \A i \in DOMAIN manager.type_to_registration :
          LET registration == manager.type_to_registration[i][2]
          IN  /\ registration.type = manager.type_to_registration[i][1]
              /\ registration.type # ""
              /\ StrictlyBelow(registration.pkg_repo_config_cls, "PkgRepoConfig")
              /\ StrictlyBelow(registration.pkg_repo_secret_cls, "PkgRepoSecret")
              /\ StrictlyBelow(registration.pkg_repo_cls, "PkgRepo")
              /\ StrictlyBelow(registration.pkg_ref_cls, "PkgRef")
    /\ Cardinality(DictKeys(manager.type_to_registration))
           = Len(manager.type_to_registration)

\* C15's case: with two backends registered, a bundle that names a third type
\* was refused.
C15_Witness ==
    /\ Len(manager.type_to_registration) = 2
    /\ created.called
    /\ \E i \in DOMAIN created.kwargs : created.kwargs[i] = <<"type", "s3">>
    /\ created.raised # ""
    /\ created.cls = "none"

(***************************************************************************)
(* DynamicHuey: tasks declared before the storage exists                   *)
(***************************************************************************)
\* The functions that are decorated, the SqliteHuey instances that are
\* assigned, and the arguments task() is called with.
Funcs == {"f", "g"}

HueyStorages == {"huey1", "huey2"}

TaskArgs == {"retries=0", "retries=3"}

\* A function that _func_to_task_args does not hold.
NoTaskArgs == [registered |-> FALSE, task_args |-> ""]

\* _func_to_task.get(func) is None.
NoTask == [bound |-> FALSE, storage |-> "None", task_args |-> ""]

NoAssignment ==
    [assigned |-> FALSE, storage |-> "None",
     func_to_task_args |-> [func \in Funcs |-> NoTaskArgs]]

NoCall == [called |-> FALSE, func |-> "", raised |-> "", task |-> NoTask]

\* DynamicHuey.__init__
HueyInit ==
    /\ huey_storage = "None"
    /\ func_to_task_args = [func \in Funcs |-> NoTaskArgs]
    /\ func_to_task = [func \in Funcs |-> NoTask]
    /\ last_assignment = NoAssignment
    /\ last_call = NoCall

\* dynamic_huey.task(*task_args)(func): the arguments are filed under func
\* and the wrapper is returned.
TaskDecorate(func, task_args) ==
    /\ func_to_task_args' =
          [func_to_task_args EXCEPT ![func] =
              [registered |-> TRUE, task_args |-> task_args]]
    /\ UNCHANGED <<huey_storage, func_to_task, last_assignment, last_call>>
    /\ UNCHANGED notHueyVars

\* The huey_storage setter binds the functions filed so far:
\* _func_to_task[func] = new_huey_storage.task(*task_args)(func).
bind_tasks(new_huey_storage, f2a, f2t) ==
    [func \in Funcs |->
        IF f2a[func].registered
        THEN [bound |-> TRUE, storage |-> new_huey_storage,
              task_args |-> f2a[func].task_args]
        ELSE f2t[func]]

\* dynamic_huey.huey_storage = new_huey_storage; last_assignment keeps the
\* assigned storage and the functions filed at that moment.
SetHueyStorage(new_huey_storage) ==
    /\ huey_storage' = new_huey_storage
    /\ func_to_task' = bind_tasks(new_huey_storage, func_to_task_args, func_to_task)
    /\ last_assignment' = [assigned |-> TRUE, storage |-> new_huey_storage,
                           func_to_task_args |-> func_to_task_args]
    /\ UNCHANGED <<func_to_task_args, last_call>>
    /\ UNCHANGED notHueyVars

\* A wrapper that asks whether a storage is assigned.
wrapped_if_storage(assigned_storage, f2t, func) ==
    IF assigned_storage = "None"
    THEN [raised |-> "RuntimeError", task |-> NoTask]
    ELSE [raised |-> "", task |-> f2t[func]]

\* wrapped(*args, **kwargs): the exception ("" for none) and the task the
\* call went to.
wrapped(assigned_storage, f2t, func) ==
    IF ~f2t[func].bound
    THEN [raised |-> "RuntimeError", task |-> NoTask]
    ELSE [raised |-> "", task |-> f2t[func]]

\* A call of the wrapper of a decorated function.
CallWrapped(func) ==
    /\ func_to_task_args[func].registered
    /\ LET r == wrapped(huey_storage, func_to_task, func)
       IN  last_call' = [called |-> TRUE, func |-> func, raised |-> r.raised,
                         task |-> r.task]
    /\ UNCHANGED <<huey_storage, func_to_task_args, func_to_task, last_assignment>>
    /\ UNCHANGED notHueyVars

HueyNext ==
    \/ \E func \in Funcs, task_args \in TaskArgs : TaskDecorate(func, task_args)
    \/ \E new_huey_storage \in HueyStorages : SetHueyStorage(new_huey_storage)
    \/ \E func \in Funcs : CallWrapped(func)

\* C19: a call of a decorated function raises RuntimeError exactly when the
\* function was not yet decorated at the latest huey_storage assignment (or
\* nothing was assigned yet); otherwise it goes to the task that the latest
\* assignment bound for the function: of the assigned storage, with the
\* arguments the function was decorated with by then.
C19_DynamicTask ==
    [][last_call' # last_call =>
        LET func == last_call'.func
            since == last_assignment.assigned
                        /\ last_assignment.func_to_task_args[func].registered
        IN  /\ func_to_task_args[func].registered
            /\ (last_call'.raised = "RuntimeError") <=> ~since
            /\ last_call'.raised \in {"", "RuntimeError"}
            /\ since =>
                  last_call'.task =
                      [bound |-> TRUE, storage |-> last_assignment.storage,
                       task_args |->
                           last_assignment.func_to_task_args[func].task_args]]_vars

\* C19's case: g was decorated only after the storage was assigned and its
\* call raised, while f was bound by that assignment.
C19_Witness ==
    /\ last_call.called
    /\ last_call.func = "g"
    /\ last_call.raised = "RuntimeError"
    /\ huey_storage # "None"
    /\ func_to_task["f"].bound
    /\ func_to_task_args["g"].registered

(***************************************************************************)
(* Bulk load and dump of configs and secrets                               *)
(***************************************************************************)
\* str.lower
lower(s) == [i \in DOMAIN s |-> ToLower(s[i])]

\* Instance names: "Repo", "repo", "main".
InstanceNames ==
    { <<"R", "e", "p", "o">>, <<"r", "e", "p", "o">>, <<"m", "a", "i", "n">> }

BackendTypes == {"file_system", "github"}

\* The largest number of configs in a collection.
MaxConfigs == 2

\* The manager of an installation with both backends.
BothBackends == <<FileSystemRegistration, GitHubRegistration>>

\* A config object: its class and the fields that differ between instances
\* (the other fields keep their defaults and are carried along unread).
PkgRepoConfigs ==
    {[cls |-> r.pkg_repo_config_cls, type |-> r.type, name |-> name] :
        r \in {FileSystemRegistration, GitHubRegistration}, name \in InstanceNames}

ConfigLists == SeqsUpTo(PkgRepoConfigs, MaxConfigs)

\* BaseModel.dict(): the fields in the order of the class.
dict(obj) == << <<"type", obj.type>>, <<"name", obj.name>> >>

\* dict.pop(key): the value, and the dict without the key.
pop(d, key) ==
    [value |-> DictGet(d, key),
     rest |-> SelectSeq(d, LAMBDA pair : pair[1] # key)]

\* dump_pkg_repo_configs: the struct handed to write_toml.
RECURSIVE DumpConfigsFrom(_, _, _)
DumpConfigsFrom(pkg_repo_config_list, dump, i) ==
    IF i > Len(pkg_repo_config_list)
    THEN dump
    ELSE LET popped == pop(dict(pkg_repo_config_list[i]), "name")
         IN  DumpConfigsFrom(pkg_repo_config_list,
                             DictSet(dump, lower(popped.value), popped.rest), i + 1)

dump_pkg_repo_configs(pkg_repo_config_list) ==
    DumpConfigsFrom(pkg_repo_config_list, EmptyDict, 1)

\* load_pkg_repo_configs: per table of the file, the name is lowercased and
\* create_pkg_repo_config(name=name, **struct) is filed under it; an exception
\* of the registry leaves the call.
RECURSIVE LoadConfigsFrom(_, _, _, _)
LoadConfigsFrom(type_to_registration, file, name_to_pkg_repo_config, i) ==
    IF i > Len(file)
    THEN [raised |-> FALSE, map |-> name_to_pkg_repo_config]
    ELSE LET name == lower(file[i][1])
             kwargs == << <<"name", name>> >> \o file[i][2]
             made == create(type_to_registration, "pkg_repo_config_cls", kwargs)
         IN  IF made.raised # ""
             THEN [raised |-> TRUE, map |-> EmptyDict]
             ELSE LoadConfigsFrom(type_to_registration, file,
                     DictSet(name_to_pkg_repo_config, name,
                             [cls |-> made.cls, type |-> DictGet(kwargs, "type"),
                              name |-> DictGet(kwargs, "name")]),
                     i + 1)

load_pkg_repo_configs(type_to_registration, file) ==
    LoadConfigsFrom(type_to_registration, file, EmptyDict, 1)

\* load_pkg_repo_secrets: as load_pkg_repo_configs, with the name as the file
\* has it.
RECURSIVE LoadSecretsFrom(_, _, _, _)
LoadSecretsFrom(type_to_registration, file, name_to_pkg_repo_secret, i) ==
    IF i > Len(file)
    THEN [raised |-> FALSE, map |-> name_to_pkg_repo_secret]
    ELSE LET name == file[i][1]
             kwargs == << <<"name", name>> >> \o file[i][2]
             made == create(type_to_registration, "pkg_repo_secret_cls", kwargs)
         IN  IF made.raised # ""
             THEN [raised |-> TRUE, map |-> EmptyDict]
             ELSE LoadSecretsFrom(type_to_registration, file,
                     DictSet(name_to_pkg_repo_secret, name,
                             [cls |-> made.cls, type |-> DictGet(kwargs, "type"),
                              name |-> DictGet(kwargs, "name"),
                              raw |-> DictGet(kwargs, "raw")]),
                     i + 1)

load_pkg_repo_secrets(type_to_registration, file) ==
    LoadSecretsFrom(type_to_registration, file, EmptyDict, 1)

\* The secret file of the instances of a collection: one table per instance,
\* under the instance's name.
RECURSIVE SecretFileFrom(_, _, _)
SecretFileFrom(pkg_repo_config_list, file, i) ==
    IF i > Len(pkg_repo_config_list)
    THEN file
    ELSE SecretFileFrom(pkg_repo_config_list,
                        DictSet(file, pkg_repo_config_list[i].name,
                                << <<"type", pkg_repo_config_list[i].type>>,
                                   <<"raw", "token">> >>),
                        i + 1)

NoLoad == [called |-> FALSE, raised |-> FALSE, map |-> EmptyDict]

ConfigsParked ==
    /\ pkg_repo_configs = <<>>
    /\ config_file = [exists |-> FALSE, struct |-> EmptyDict]
    /\ secret_file = EmptyDict
    /\ loaded_configs = NoLoad
    /\ loaded_secrets = NoLoad

\* A collection of configs and the secret file of its instances.
ConfigsInit ==
    /\ pkg_repo_configs \in ConfigLists
    /\ config_file = [exists |-> FALSE, struct |-> EmptyDict]
    /\ secret_file = SecretFileFrom(pkg_repo_configs, EmptyDict, 1)
    /\ loaded_configs = NoLoad
    /\ loaded_secrets = NoLoad

\* BackendInstanceManager.dump_pkg_repo_configs(path, pkg_repo_configs)
DumpConfigs ==
    /\ config_file' = [exists |-> TRUE,
                       struct |-> dump_pkg_repo_configs(pkg_repo_configs)]
    /\ UNCHANGED <<pkg_repo_configs, secret_file, loaded_configs, loaded_secrets>>
    /\ UNCHANGED notConfigsVars

\* manager.load_pkg_repo_configs(path) of a dumped file
LoadConfigs ==
    /\ config_file.exists
    /\ LET r == load_pkg_repo_configs(manager.type_to_registration, config_file.struct)
       IN  loaded_configs' = [called |-> TRUE, raised |-> r.raised, map |-> r.map]
    /\ UNCHANGED <<pkg_repo_configs, config_file, secret_file, loaded_secrets>>
    /\ UNCHANGED notConfigsVars

\* manager.load_pkg_repo_secrets(path)
LoadSecrets ==
    /\ LET r == load_pkg_repo_secrets(manager.type_to_registration, secret_file)
       IN  loaded_secrets' = [called |-> TRUE, raised |-> r.raised, map |-> r.map]
    /\ UNCHANGED <<pkg_repo_configs, config_file, secret_file, loaded_configs>>
    /\ UNCHANGED notConfigsVars

ConfigsNext ==
    \/ DumpConfigs
    \/ LoadConfigs
    \/ LoadSecrets

\* The instance names of the collection are pairwise distinct after
\* lowercasing.
DistinctNames ==
    \A i, j \in DOMAIN pkg_repo_configs :
        i # j => lower(pkg_repo_configs[i].name) # lower(pkg_repo_configs[j].name)

\* The configs part of C20: the loaded map has one entry per dumped config,
\* under the lowercased name, equal to the config with its name lowercased.
ConfigsRoundTrip ==
    (DistinctNames /\ loaded_configs.called) =>
        /\ ~loaded_configs.raised
        /\ Len(loaded_configs.map) = Len(pkg_repo_configs)
        /\ \A i \in DOMAIN pkg_repo_configs :
              \E j \in DOMAIN loaded_configs.map :
                  /\ loaded_configs.map[j][1] = lower(pkg_repo_configs[i].name)
                  /\ loaded_configs.map[j][2] =
                        [pkg_repo_configs[i] EXCEPT !.name = lower(@)]

\* C20: dumping and loading configs with names distinct after lowercasing
\* gives one entry per config, under the lowercased name, equal to the config
\* with its name lowercased; and the loaded secrets of the same instances
\* are filed under those same names.
C20_ConfigsAndSecrets ==
    /\ ConfigsRoundTrip
    /\ (DistinctNames /\ loaded_secrets.called) =>
          /\ ~loaded_secrets.raised
          /\ {loaded_secrets.map[j][1] : j \in DOMAIN loaded_secrets.map}
                = {lower(pkg_repo_configs[i].name) : i \in DOMAIN pkg_repo_configs}

(***************************************************************************)
(* The specifications                                                      *)
(***************************************************************************)
Init == IndexInit /\ FsInit /\ AuthParked /\ CacheParked /\ SyncInit /\ RegistryParked /\ HueyInit
    /\ ConfigsParked

Next ==
    \/ \E pkg_ref \in PkgRefs : AddPkgRef(pkg_ref)
    \/ DumpPkgRepoIndex
    \/ LoadPkgRepoIndex

Spec == Init /\ [][Next]_vars

\* The index under insertions and lookups.
LookupNext ==
    \/ \E pkg_ref \in PkgRefs : AddPkgRef(pkg_ref)
    \/ \E query_distrib \in DistribNames, query_package \in Packages :
          Lookup(query_distrib, query_package)

SpecLookup == Init /\ [][LookupNext]_vars

SpecFs == Init /\ [][FsNext]_vars

InitReady == IndexInit /\ ReadyInit /\ AuthParked /\ CacheParked /\ SyncInit /\ RegistryParked /\ HueyInit
    /\ ConfigsParked

SpecReady == InitReady /\ [][ReadyNext]_vars

InitAuth == IndexInit /\ FsInit /\ AuthInit /\ CacheParked /\ SyncInit /\ RegistryParked /\ HueyInit
    /\ ConfigsParked

SpecAuth == InitAuth /\ [][AuthNext]_vars

\* The workflow of the test kit's repository.
InitAuthCache ==
    /\ IndexInit /\ FsInit /\ CacheInit /\ SyncInit /\ RegistryParked /\ HueyInit
    /\ ConfigsParked
    /\ config = TestKitConfig /\ secret = "" /\ auth = NoAuth

SpecAuthCache == InitAuthCache /\ [][CacheNext]_vars

SpecSync == Init /\ [][SyncNext]_vars

InitRegistry ==
    IndexInit /\ FsInit /\ AuthParked /\ CacheParked /\ SyncInit /\ RegistryInit
    /\ HueyInit
    /\ ConfigsParked

SpecRegistry == InitRegistry /\ [][RegistryNext]_vars

SpecHuey == Init /\ [][HueyNext]_vars

\* The manager of an installation with both backends, and a collection.
InitConfigs ==
    /\ IndexInit /\ FsInit /\ AuthParked /\ CacheParked /\ SyncInit /\ HueyInit
    /\ modules = BothBackends
    /\ manager = BackendInstanceManager(modules)
    /\ created = NoCreate
    /\ ConfigsInit

SpecConfigs == InitConfigs /\ [][ConfigsNext]_vars

====
